---- MODULE Spec2Model ----
(***************************************************************************)
(* Model of the OLED128x64 driver (SSD1306 over I2C): the driver object    *)
(* (_address, _buffer), the bus transactions it issues through _write, and *)
(* the display controller those transactions act on (write cursor, GDDRAM).*)
(***************************************************************************)
EXTENDS Integers, Sequences, FiniteSets, TLC

(* ------------------------------------------------------------------ *)
(* Program constants (OLED128x64.h)                                    *)
(* ------------------------------------------------------------------ *)
OLED_WIDTH == 128
OLED_HEIGHT == 64
OLED_ADDRESS == 60
OLED_DATA_MODE == 64
OLED_CMD_MODE == 128
OLED_NORMALDISPLAY == 166
OLED_OFF == 174
OLED_ON == 175
OLED_SETDISPLAYCLOCKDIV == 213
OLED_SETMULTIPLEX == 168
OLED_SETDISPLAYOFFSET == 211
OLED_STARTLINE == 64
OLED_CHARGEPUMP == 141
OLED_SETMEMORYMODE == 32
OLED_SEGREMAP == 160
OLED_COMSCANDEC == 200
OLED_SETCOMPINS == 218
OLED_SETCONTRAST == 129
OLED_SETPRECHARGE == 217
OLED_SETVCOMDETECT == 219
OLED_DISPLAYALLONRESUME == 164
OLED_SCROLLOFF == 46
OLED_INVERTDISPLAY == 167
OLED_LOWCOLUMN == 0
OLED_HIGHCOLUMN == 16
PAGE_BASE == 176
BAR_FILLED == 126
BAR_EMPTY == 66
BAR_LEFT == 12
BAR_RIGHT == 113
BAR_START == 13
BAR_LEN == 100
LINE_FULL == 255
HLINE_LIMIT == 128
CHAR_BITS == 8

Pages == 0 .. (OLED_HEIGHT \div 8 - 1)
Columns == 0 .. (OLED_WIDTH - 1)
Byte == 0 .. 255

(* ------------------------------------------------------------------ *)
(* Bounds of the model                                                 *)
(* ------------------------------------------------------------------ *)
MaxCalls == 3
MaxLaps == 2

(* ------------------------------------------------------------------ *)
(* Bit arithmetic on non-negative integers                             *)
(* ------------------------------------------------------------------ *)
RECURSIVE Pow2(_)
Pow2(k) == IF k = 0 THEN 1 ELSE 2 * Pow2(k - 1)

Bit(x, k) == (x \div Pow2(k)) % 2

RECURSIVE BitOrFrom(_, _, _)
BitOrFrom(x, y, k) ==
    IF k = CHAR_BITS THEN 0
    ELSE (IF Bit(x, k) = 1 \/ Bit(y, k) = 1 THEN Pow2(k) ELSE 0) + BitOrFrom(x, y, k + 1)

(* Mutant: = in place of |= *)
BitOr_Assign(x, y) == y

BitOr(x, y) == BitOrFrom(x, y, 0)

(* val << (row % 8), val a bool converted to 0 or 1 *)
PixelMask(row, val) == (IF val THEN 1 ELSE 0) * Pow2(row % 8)

(* col & 0x0F and (col >> 4) & 0x0F, col >= 0 *)
(* Mutant: the column is not masked *)
LowNibble_NoMask(col) == col

LowNibble(col) == col % 16
(* Mutant: the shift by 4 is lost *)
HighNibble_NoShift(col) == col % 16

HighNibble(col) == (col \div 16) % 16

(* ------------------------------------------------------------------ *)
(* The display controller: what a bus transaction does to it           *)
(* ------------------------------------------------------------------ *)
TwoByteCommands ==
    { OLED_SETDISPLAYCLOCKDIV, OLED_SETMULTIPLEX, OLED_SETDISPLAYOFFSET,
      OLED_CHARGEPUMP, OLED_SETMEMORYMODE, OLED_SETCOMPINS, OLED_SETCONTRAST,
      OLED_SETPRECHARGE, OLED_SETVCOMDETECT }

(* A command byte: the argument of a pending two-byte command, or an opcode. *)
DevCommand(d, b) ==
    IF d.pending # 0
    THEN [d EXCEPT !.pending = 0,
                   !.mode = IF d.pending = OLED_SETMEMORYMODE THEN b % 4 ELSE @]
    ELSE IF b \in TwoByteCommands THEN [d EXCEPT !.pending = b]
    ELSE IF b >= PAGE_BASE /\ b < PAGE_BASE + 8 THEN [d EXCEPT !.page = b - PAGE_BASE]
    ELSE IF b >= OLED_LOWCOLUMN /\ b < OLED_LOWCOLUMN + 16
         THEN [d EXCEPT !.col = (@ \div 16) * 16 + (b - OLED_LOWCOLUMN)]
    ELSE IF b >= OLED_HIGHCOLUMN /\ b < OLED_HIGHCOLUMN + 16
         THEN [d EXCEPT !.col = (((b - OLED_HIGHCOLUMN) * 16) + (@ % 16)) % OLED_WIDTH]
    ELSE IF b = OLED_ON THEN [d EXCEPT !.on = TRUE]
    ELSE IF b = OLED_OFF THEN [d EXCEPT !.on = FALSE]
    ELSE IF b = OLED_INVERTDISPLAY THEN [d EXCEPT !.inverted = TRUE]
    ELSE IF b = OLED_NORMALDISPLAY THEN [d EXCEPT !.inverted = FALSE]
    ELSE d

(* A data byte lands at the cursor, which then advances: in horizontal     *)
(* addressing mode (0) past the last column to the next page, otherwise    *)
(* back to column 0 of the same page.                                      *)
DevData(d, b) ==
    LET lastCol == d.col = OLED_WIDTH - 1
    IN  [d EXCEPT !.ram[d.page][d.col] = b,
                  !.col = IF lastCol THEN 0 ELSE @ + 1,
                  !.page = IF lastCol /\ d.mode = 0 THEN (@ + 1) % (OLED_HEIGHT \div 8) ELSE @]

DevReceive(d, addr, mode, b) ==
    IF addr # d.addr THEN d
    ELSE IF mode = OLED_DATA_MODE THEN DevData(d, b)
    ELSE DevCommand(d, b)

(* ------------------------------------------------------------------ *)
(* The driver. m is the machine: the object's fields, the controller   *)
(* and the bus transactions of the running primitive.                  *)
(* ------------------------------------------------------------------ *)
(* Mutant: the transaction is addressed to the default address *)
write_DefaultAddress(m, data, mode) ==
    [m EXCEPT !.bus = Append(@, <<OLED_ADDRESS, mode, data>>),
              !.dev = DevReceive(@, OLED_ADDRESS, mode, data)]

write(m, data, mode) ==
    [m EXCEPT !.bus = Append(@, <<m.address, mode, data>>),
              !.dev = DevReceive(@, m.address, mode, data)]

setCharCursor(m, X, Y) ==
    write(write(write(m, PAGE_BASE + X, OLED_CMD_MODE),
                OLED_LOWCOLUMN + LowNibble(8 * Y), OLED_CMD_MODE),
          OLED_HIGHCOLUMN + HighNibble(8 * Y), OLED_CMD_MODE)

setCursor(m, X, col) ==
    write(write(write(m, PAGE_BASE + X, OLED_CMD_MODE),
                OLED_LOWCOLUMN + LowNibble(col), OLED_CMD_MODE),
          OLED_HIGHCOLUMN + HighNibble(col), OLED_CMD_MODE)

(* Sequencing: m, the machine after the statements so far, is evaluated      *)
(* before the statements that follow are.                                     *)
Sent(m) == Len(m.bus) >= 0

(* for (...) _write(bytes[k], OLED_DATA_MODE): the bytes in order, k = lo..hi *)
RECURSIVE StreamRange(_, _, _, _)
StreamRange(m, bytes, lo, hi) ==
    IF lo > hi THEN m
    ELSE IF lo = hi THEN write(m, bytes[lo], OLED_DATA_MODE)
    ELSE LET mid == (lo + hi) \div 2
             first == StreamRange(m, bytes, lo, mid)
         IN  CASE Sent(first) -> StreamRange(first, bytes, mid + 1, hi)

Stream(m, bytes) == StreamRange(m, bytes, 1, Len(bytes))

Zeros(n) == [k \in 1 .. n |-> 0]

clearBuffer(m) ==
    [m EXCEPT !.buffer = [i \in Columns |-> [j \in Pages |-> 0]]]

RECURSIVE clearScreenFrom(_, _)
clearScreenFrom(m, j) ==
    IF j < OLED_HEIGHT \div 8
    THEN LET page == Stream(setCharCursor(m, j, 0), Zeros(OLED_WIDTH))
         IN  CASE Sent(page) -> clearScreenFrom(page, j + 1)
    ELSE m

clearScreen(m) == setCharCursor(clearScreenFrom(m, 0), 0, 0)

(* Mutant: the two indices are taken the other way round *)
clearCharBufferStores_Transposed(X, Y) == {<<X * 8 + i, Y>> : i \in 0 .. 7}

(* The elements of _buffer that _clearCharBuffer(X, Y) stores to *)
clearCharBufferStores(X, Y) == {<<Y * 8 + i, X>> : i \in 0 .. 7}

(* A store among them that is outside the array _buffer[128][8] *)
OutOfArray(X, Y) ==
    \E s \in clearCharBufferStores(X, Y) : s[1] \notin Columns \/ s[2] \notin Pages

(* A store past the end of the array lands outside _buffer, the last     *)
(* member of the object, and leaves the elements of _buffer as they are. *)
RECURSIVE clearCharBufferFrom(_, _, _, _)
clearCharBufferFrom(m, X, Y, i) ==
    IF i < 8
    THEN clearCharBufferFrom(IF Y * 8 + i \in Columns /\ X \in Pages
                             THEN [m EXCEPT !.buffer[Y * 8 + i][X] = 0]
                             ELSE m,
                             X, Y, i + 1)
    ELSE m

(* Mutant: the cell is not cleared in the shadow buffer *)
clearCharBuffer_Skip(m, X, Y) == m

clearCharBuffer(m, X, Y) == clearCharBufferFrom(m, X, Y, 0)

(* Mutant: the cell column is used as a pixel column *)
clearCharScreen_PixelColumn(m, X, Y) == Stream(setCursor(m, X, Y), Zeros(8))

clearCharScreen(m, X, Y) == Stream(setCharCursor(m, X, Y), Zeros(8))

getAddress(m) == m.address

setAddress(m, address) == [m EXCEPT !.address = address]

setInvertedDisplay(m, val) ==
    IF val THEN write(m, OLED_INVERTDISPLAY, OLED_CMD_MODE)
    ELSE write(m, OLED_NORMALDISPLAY, OLED_CMD_MODE)

(* Mutant: the updated byte is sent but not stored in _buffer *)
setPixel_NoStore(m, row, col, val) ==
    LET b == BitOr(m.buffer[col][row \div 8], PixelMask(row, val))
    IN  write(setCursor(m, row \div 8, col), b, OLED_DATA_MODE)

(* Mutant: the byte is overwritten with the mask *)
setPixel_Overwrite(m, row, col, val) ==
    LET m1 == [m EXCEPT !.buffer[col][row \div 8] = PixelMask(row, val)]
    IN  write(setCursor(m1, row \div 8, col), m1.buffer[col][row \div 8], OLED_DATA_MODE)

setPixel(m, row, col, val) ==
    LET m1 == [m EXCEPT !.buffer[col][row \div 8] = BitOr(@, PixelMask(row, val))]
        m2 == write(m1, PAGE_BASE + row \div 8, OLED_CMD_MODE)
        m3 == write(m2, OLED_LOWCOLUMN + LowNibble(col), OLED_CMD_MODE)
        m4 == write(m3, OLED_HIGHCOLUMN + HighNibble(col), OLED_CMD_MODE)
    IN  write(m4, m1.buffer[col][row \div 8], OLED_DATA_MODE)

(* Mutant: the shadow buffer is not cleared *)
clear_ScreenOnly(m) == setCharCursor(clearScreen(m), 0, 0)

clear(m) == setCharCursor(clearBuffer(clearScreen(m)), 0, 0)

clearChar(m, X, Y) == setCharCursor(clearCharScreen(clearCharBuffer(m, X, Y), X, Y), 0, 0)

(* Mutant: the loop of clearCharRow stops before the last cell *)
RECURSIVE clearCharRowFrom_Short(_, _, _)
clearCharRowFrom_Short(m, X, j) ==
    IF j < OLED_WIDTH \div 8 - 1
    THEN LET cell == clearCharScreen(clearCharBuffer(m, X, j), X, j)
         IN  CASE Sent(cell) -> clearCharRowFrom_Short(cell, X, j + 1)
    ELSE m

RECURSIVE clearCharRowFrom(_, _, _)
clearCharRowFrom(m, X, j) ==
    IF j < OLED_WIDTH \div 8
    THEN LET cell == clearCharScreen(clearCharBuffer(m, X, j), X, j)
         IN  CASE Sent(cell) -> clearCharRowFrom(cell, X, j + 1)
    ELSE m

clearCharRow(m, X) == setCharCursor(clearCharRowFrom(m, X, 0), 0, 0)

(* Mutant: powerOn sends the display-off opcode *)
powerOn_DisplayOff(m) == write(m, OLED_OFF, OLED_CMD_MODE)

powerOn(m) == write(m, OLED_ON, OLED_CMD_MODE)

powerOff(m) == write(m, OLED_OFF, OLED_CMD_MODE)


(* Mutant: the memory addressing mode is left at its reset value *)
InitCommands_NoMemoryMode ==
    << OLED_OFF, OLED_NORMALDISPLAY, OLED_SETDISPLAYCLOCKDIV, 128, OLED_SETMULTIPLEX, 63,
       OLED_SETDISPLAYOFFSET, 0, OLED_STARTLINE, OLED_CHARGEPUMP, 20,
       OLED_SEGREMAP, OLED_COMSCANDEC, OLED_SETCOMPINS, 18, OLED_SETCONTRAST, 207,
       OLED_SETPRECHARGE, 241, OLED_SETVCOMDETECT, 64, OLED_DISPLAYALLONRESUME,
       OLED_SEGREMAP, 161, OLED_SCROLLOFF >>

(* The configuration commands of init(), in the order they are sent. *)
InitCommands ==
    << OLED_OFF, OLED_NORMALDISPLAY,
       OLED_SETDISPLAYCLOCKDIV, 128,
       OLED_SETMULTIPLEX, 63,
       OLED_SETDISPLAYOFFSET, 0,
       OLED_STARTLINE,
       OLED_CHARGEPUMP, 20,
       OLED_SETMEMORYMODE, 0,
       OLED_SEGREMAP,
       OLED_COMSCANDEC,
       OLED_SETCOMPINS, 18,
       OLED_SETCONTRAST, 207,
       OLED_SETPRECHARGE, 241,
       OLED_SETVCOMDETECT, 64,
       OLED_DISPLAYALLONRESUME,
       OLED_SEGREMAP, 161,
       OLED_SCROLLOFF >>

RECURSIVE writeCommands(_, _, _)
writeCommands(m, cmds, k) ==
    IF k > Len(cmds) THEN m
    ELSE LET sent == write(m, cmds[k], OLED_CMD_MODE)
         IN  CASE Sent(sent) -> writeCommands(sent, cmds, k + 1)

(* Mutant: the display is powered on before it is cleared *)
init_PowerOnFirst(m) ==
    LET configured == writeCommands(m, InitCommands, 1)
    IN  CASE Sent(configured) -> clear(powerOn(configured))

(* Mutant: the display is not cleared *)
init_NoClear(m) ==
    LET configured == writeCommands(m, InitCommands, 1)
    IN  CASE Sent(configured) -> powerOn(configured)

init(m) ==
    LET configured == writeCommands(m, InitCommands, 1)
    IN  CASE Sent(configured) -> powerOn(clear(configured))

(* Mutant: > in place of >= *)
ProgressByte_Strict(percent, i) == IF percent > i THEN BAR_FILLED ELSE BAR_EMPTY

(* Body byte i of the progress bar *)
ProgressByte(percent, i) == IF percent >= i THEN BAR_FILLED ELSE BAR_EMPTY

(* Mutant: the row is cleared whatever the percentage *)
drawProgressBar_AlwaysClears(m, X, percent) ==
    LET m0 == clearCharRow(m, X)
        m1 == write(setCursor(m0, X, BAR_LEFT), BAR_FILLED, OLED_DATA_MODE)
        m2 == write(setCursor(m1, X, BAR_RIGHT), BAR_FILLED, OLED_DATA_MODE)
    IN  Stream(setCursor(m2, X, BAR_START),
               [k \in 1 .. BAR_LEN |-> ProgressByte(percent, k - 1)])

drawProgressBar(m, X, percent) ==
    LET m0 == IF percent = 0 THEN clearCharRow(m, X) ELSE m
        m1 == write(setCursor(m0, X, BAR_LEFT), BAR_FILLED, OLED_DATA_MODE)
        m2 == write(setCursor(m1, X, BAR_RIGHT), BAR_FILLED, OLED_DATA_MODE)
    IN  Stream(setCursor(m2, X, BAR_START),
               [k \in 1 .. BAR_LEN |-> ProgressByte(percent, k - 1)])

(* The value of a char object holding the byte b: char is signed on AVR,  *)
(* unsigned on ESP8266.                                                    *)
CharValue(signed, b) == IF signed /\ b >= 128 THEN b - 256 ELSE b

(* (unsigned char) v *)
UnsignedChar(v) == v % 256

(* defaultFont, the entries of the characters the model draws *)
FontCodes == {65, 66, 200}
defaultFont ==
    [u \in FontCodes |->
        CASE u = 65 -> <<0, 30, 30, 10, 30, 30, 0, 0>>
          [] u = 66 -> <<0, 30, 30, 22, 30, 26, 0, 0>>
          [] u = 200 -> <<0, 0, 0, 31, 31, 0, 0, 0>>]

(* The while loop of drawStr: 8 glyph bytes per character, up to the      *)
(* terminating 0.                                                         *)
RECURSIVE drawStrFrom(_, _, _, _)
drawStrFrom(m, string, k, font) ==
    IF k > Len(string) \/ CharValue(m.signed, string[k]) = 0 THEN m
    ELSE LET glyph == Stream(m, font[UnsignedChar(CharValue(m.signed, string[k]))])
         IN  CASE Sent(glyph) -> drawStrFrom(glyph, string, k + 1, font)

(* Mutant: the cell column is used as a pixel column *)
drawStr_PixelColumn(m, string, X, Y) ==
    drawStrFrom(setCursor(m, X, Y), string, 1, defaultFont)

(* Mutant: the glyphs are streamed from where the cursor is *)
drawStr_NoCursor(m, string, X, Y) == drawStrFrom(m, string, 1, defaultFont)

(* Mutant: the cell is cleared in the shadow buffer before it is drawn *)
drawStr_ClearsCell(m, string, X, Y) ==
    drawStrFrom(setCharCursor(clearCharBuffer(m, X, Y), X, Y), string, 1, defaultFont)

drawStr(m, string, X, Y) == drawStrFrom(setCharCursor(m, X, Y), string, 1, defaultFont)

drawImage(m, data) ==
    LET cleared == clear(m)
    IN  CASE Sent(cleared) ->
            Stream(setCharCursor(cleared, 0, 0),
                   [k \in 1 .. (OLED_WIDTH * OLED_HEIGHT) \div 8 |-> data[k - 1]])

(* char i; i++ *)
CharInc(signed, i) ==
    IF signed THEN (IF i = 127 THEN -128 ELSE i + 1) ELSE (i + 1) % 256

(* for (i = ...; i < 128; i++): the counter after at most k more iterations, *)
(* and the number n of iterations made                                       *)
HLineStep(signed, s) ==
    IF s.i < HLINE_LIMIT THEN [i |-> CharInc(signed, s.i), n |-> s.n + 1] ELSE s

RECURSIVE HLineRun(_, _, _)
HLineRun(signed, s, k) ==
    IF k = 0 THEN s
    ELSE IF k = 1 THEN HLineStep(signed, s)
    ELSE LET half == HLineRun(signed, s, k \div 2)
         IN  CASE half.n >= 0 -> HLineRun(signed, half, k - k \div 2)

(* One lap of the loop of drawHLine: it runs until the loop exits, and at  *)
(* most until the 8-bit counter has taken each of its values once.         *)
drawHLineLoop(m, i, value) ==
    LET s == HLineRun(m.signed, [i |-> i, n |-> 0], Pow2(CHAR_BITS))
        m1 == Stream(m, [k \in 1 .. s.n |-> value])
        done == ~(s.i < HLINE_LIMIT)
    IN  [m |-> IF done THEN setCharCursor(m1, 0, 0) ELSE m1, i |-> s.i, done |-> done]

HLineValue(row) == BitOr(0, Pow2(row % 8))

drawHLine(m, row) == drawHLineLoop(setCharCursor(m, row \div 8, 0), 0, HLineValue(row))

(* Mutant: the loop of drawVLine stops one page short *)
RECURSIVE drawVLineFrom_SevenPages(_, _, _)
drawVLineFrom_SevenPages(m, col, k) ==
    IF k < 7
    THEN LET page == write(setCursor(m, k, col), LINE_FULL, OLED_DATA_MODE)
         IN  CASE Sent(page) -> drawVLineFrom_SevenPages(page, col, k + 1)
    ELSE m

RECURSIVE drawVLineFrom(_, _, _)
drawVLineFrom(m, col, k) ==
    IF k < 8
    THEN LET page == write(setCursor(m, k, col), LINE_FULL, OLED_DATA_MODE)
         IN  CASE Sent(page) -> drawVLineFrom(page, col, k + 1)
    ELSE m

drawVLine(m, col) == setCharCursor(drawVLineFrom(m, col, 0), 0, 0)


(* ------------------------------------------------------------------ *)
(* State                                                               *)
(* ------------------------------------------------------------------ *)
VARIABLES
    _address,   \* the object's I2C address
    _buffer,    \* the shadow buffer, [column][page]
    dev,        \* the controller: ram[page][column], cursor, addressing mode
    bus,        \* the transactions <<address, mode, byte>> of the last primitive called
    signed,     \* whether char is signed on the build's platform
    last,       \* the last primitive called and its arguments
    calls,      \* number of primitives called
    pc,         \* "ready", or the primitive still running
    loop,       \* counter and value of the running loop of drawHLine
    prev,       \* _buffer and dev as they were when the last primitive was called
    tasks       \* the callers running setPixel at the same time, and their positions

vars == <<_address, _buffer, dev, bus, signed, last, calls, pc, loop, prev, tasks>>

(* Arguments the primitives are called with *)
PowerUpFill == {0, 165}
PixelArgs ==
    {<<0, 0, TRUE>>, <<8, 13, TRUE>>, <<9, 13, TRUE>>, <<9, 13, FALSE>>, <<63, 127, TRUE>>}
CellArgs == {<<0, 0>>, <<1, 1>>, <<7, 15>>}
CellRows == {1}
Strings == <<(<<65>>), (<<200, 66>>)>>
StrArgs == {<<1, 7, 15>>, <<2, 1, 1>>, <<2, 1, 15>>}
ImageByte(n, i) == IF n = 1 THEN (7 * i + 5) % 256 ELSE (i \div OLED_WIDTH) + 1
Image(n) == [i \in 0 .. ((OLED_WIDTH * OLED_HEIGHT) \div 8 - 1) |-> ImageByte(n, i)]
Images == {1, 2}
LineRows == {9, 63}
LineCols == {13, 127}
BarArgs == {<<1, -1>>, <<1, 0>>, <<1, 50>>, <<1, 100>>, <<1, 101>>}
CursorArgs == {<<3, 40>>}
CharCursorArgs == {<<2, 5>>}
AddressArgs == {60, 61}

Call(op, args) == [op |-> op, args |-> args]
NoLoop == [i |-> 0, value |-> 0, laps |-> 0]
Tasks == {1, 2}
NoTasks ==
    [run |-> [t \in Tasks |-> [pc |-> "idle", row |-> 0, col |-> 0, reg |-> 0]],
     mixed |-> FALSE, first |-> 0]

Machine ==
    [address |-> _address, buffer |-> _buffer, dev |-> dev, bus |-> <<>>, signed |-> signed]

Init ==
    /\ _address = OLED_ADDRESS
    /\ _buffer = [i \in Columns |-> [j \in Pages |-> 0]]
    /\ \E fill \in PowerUpFill :
          dev = [ram |-> [p \in Pages |-> [c \in Columns |-> fill]],
                 page |-> 0, col |-> 0, mode |-> 2, pending |-> 0,
                 on |-> FALSE, inverted |-> FALSE, addr |-> OLED_ADDRESS]
    /\ bus = <<>>
    /\ signed \in BOOLEAN
    /\ last = Call("construct", <<OLED_ADDRESS>>)
    /\ calls = 0
    /\ pc = "ready"
    /\ loop = NoLoop
    /\ prev = [buffer |-> _buffer, dev |-> dev]
    /\ tasks = NoTasks

(* The primitive named by call has run from Machine and returned r. *)
Return(r, call) ==
    /\ _address' = r.address
    /\ _buffer' = r.buffer
    /\ dev' = r.dev
    /\ bus' = r.bus
    /\ last' = call
    /\ calls' = calls + 1
    /\ prev' = [buffer |-> _buffer, dev |-> dev]
    /\ UNCHANGED <<signed, pc, loop, tasks>>

CanCall == pc = "ready" /\ calls < MaxCalls
Started == calls > 0

DoInit == CanCall /\ Return(init(Machine), Call("init", <<>>))

DoClear == CanCall /\ Started /\ Return(clear(Machine), Call("clear", <<>>))

DoClearChar ==
    /\ CanCall /\ Started
    /\ \E a \in CellArgs : Return(clearChar(Machine, a[1], a[2]), Call("clearChar", a))

DoClearCharRow ==
    /\ CanCall /\ Started
    /\ \E X \in CellRows : Return(clearCharRow(Machine, X), Call("clearCharRow", <<X>>))

DoSetPixel ==
    /\ CanCall /\ Started
    /\ \E a \in PixelArgs :
          Return(setPixel(Machine, a[1], a[2], a[3]),
                 Call("setPixel", <<a[1], a[2], IF a[3] THEN 1 ELSE 0>>))

DoSetInvertedDisplay ==
    /\ CanCall /\ Started
    /\ \E val \in BOOLEAN :
          Return(setInvertedDisplay(Machine, val),
                 Call("setInvertedDisplay", <<IF val THEN 1 ELSE 0>>))

DoSetCursor ==
    /\ CanCall /\ Started
    /\ \E a \in CursorArgs : Return(setCursor(Machine, a[1], a[2]), Call("setCursor", a))

DoSetCharCursor ==
    /\ CanCall /\ Started
    /\ \E a \in CharCursorArgs :
          Return(setCharCursor(Machine, a[1], a[2]), Call("setCharCursor", a))

DoPowerOn == CanCall /\ Started /\ Return(powerOn(Machine), Call("powerOn", <<>>))

DoPowerOff == CanCall /\ Started /\ Return(powerOff(Machine), Call("powerOff", <<>>))

DoDrawProgressBar ==
    /\ CanCall /\ Started
    /\ \E a \in BarArgs :
          Return(drawProgressBar(Machine, a[1], a[2]), Call("drawProgressBar", a))

DoDrawStr ==
    /\ CanCall /\ Started
    /\ \E a \in StrArgs :
          Return(drawStr(Machine, Strings[a[1]], a[2], a[3]), Call("drawStr", a))

DoDrawImage ==
    /\ CanCall /\ Started
    /\ \E n \in Images : Return(drawImage(Machine, Image(n)), Call("drawImage", <<n>>))

DoDrawVLine ==
    /\ CanCall /\ Started
    /\ \E col \in LineCols : Return(drawVLine(Machine, col), Call("drawVLine", <<col>>))

(* drawHLine returns when its loop exits; while it does not, the primitive *)
(* is still running and no other can be called.                            *)
DoDrawHLine ==
    /\ CanCall /\ Started
    /\ \E row \in LineRows :
          LET r == drawHLine(Machine, row)
          IN  /\ _address' = r.m.address
              /\ _buffer' = r.m.buffer
              /\ dev' = r.m.dev
              /\ bus' = r.m.bus
              /\ last' = Call("drawHLine", <<row>>)
              /\ calls' = calls + 1
              /\ prev' = [buffer |-> _buffer, dev |-> dev]
              /\ pc' = IF r.done THEN "ready" ELSE "drawHLine"
              /\ loop' = IF r.done THEN NoLoop
                         ELSE [i |-> r.i, value |-> HLineValue(row), laps |-> 1]
              /\ UNCHANGED <<signed, tasks>>

DrawHLineContinue ==
    /\ pc = "drawHLine"
    /\ loop.laps < MaxLaps
    /\ LET r == drawHLineLoop([Machine EXCEPT !.bus = bus], loop.i, loop.value)
       IN  /\ _address' = r.m.address
           /\ _buffer' = r.m.buffer
           /\ dev' = r.m.dev
           /\ bus' = r.m.bus
           /\ pc' = IF r.done THEN "ready" ELSE "drawHLine"
           /\ loop' = IF r.done THEN NoLoop ELSE [loop EXCEPT !.i = r.i, !.laps = @ + 1]
           /\ UNCHANGED <<signed, last, calls, prev, tasks>>

Next ==
    \/ DoInit
    \/ DoClear
    \/ DoClearChar
    \/ DoClearCharRow
    \/ DoSetPixel
    \/ DoSetInvertedDisplay
    \/ DoSetCursor
    \/ DoSetCharCursor
    \/ DoPowerOn
    \/ DoPowerOff
    \/ DoDrawProgressBar
    \/ DoDrawStr
    \/ DoDrawImage
    \/ DoDrawHLine
    \/ DoDrawVLine
    \/ DrawHLineContinue

Spec == Init /\ [][Next]_vars

(* The primitives that do not write the shadow buffer, with setAddress, *)
(* which may be called before init() as the constructor does; setPixel *)
(* gives the shadow buffer its content.                                 *)
DoSetAddress ==
    /\ CanCall
    /\ \E address \in AddressArgs :
          Return(setAddress(Machine, address), Call("setAddress", <<address>>))

(* getAddress changes nothing; the value it returns is kept with the call. *)
DoGetAddress ==
    /\ CanCall
    /\ Return(Machine, Call("getAddress", <<getAddress(Machine)>>))

NextAddr ==
    \/ DoSetAddress
    \/ DoGetAddress
    \/ DoInit
    \/ DoSetPixel
    \/ DoSetInvertedDisplay
    \/ DoPowerOn
    \/ DoPowerOff
    \/ DoDrawStr
    \/ DoDrawHLine
    \/ DoDrawVLine
    \/ DrawHLineContinue

SpecAddr == Init /\ [][NextAddr]_vars

(* The cursor primitives called with every page and column, once, after *)
(* init() and after cursor calls that left the cursor elsewhere.        *)
InitFirst == calls = 0 /\ DoInit

CursorMoved ==
    \/ last.op = "init"
    \/ last.op = "setCursor" /\ last.args \in CursorArgs
    \/ last.op = "setCharCursor" /\ last.args \in CharCursorArgs

SetCursorAny ==
    /\ CanCall /\ Started /\ CursorMoved
    /\ \E X \in Pages : \E col \in Columns :
          Return(setCursor(Machine, X, col), Call("setCursor", <<X, col>>))

SetCharCursorAny ==
    /\ CanCall /\ Started /\ CursorMoved
    /\ \E X \in Pages : \E Y \in 0 .. (OLED_WIDTH \div 8 - 1) :
          Return(setCharCursor(Machine, X, Y), Call("setCharCursor", <<X, Y>>))

MoveCursor == CursorMoved /\ DoSetCursor

MoveCharCursor == CursorMoved /\ DoSetCharCursor

NextCursor ==
    \/ InitFirst
    \/ MoveCursor
    \/ MoveCharCursor
    \/ SetCursorAny
    \/ SetCharCursorAny

SpecCursor == Init /\ [][NextCursor]_vars

(* The primitives that keep the shadow buffer in step with the device, *)
(* after init() or after clear() as the first call.                    *)
ClearFirst == calls = 0 /\ CanCall /\ Return(clear(Machine), Call("clear", <<>>))

NextTracked ==
    \/ InitFirst
    \/ ClearFirst
    \/ DoSetPixel
    \/ DoClear
    \/ DoClearChar
    \/ DoClearCharRow
    \/ DoSetInvertedDisplay
    \/ DoPowerOn
    \/ DoPowerOff

SpecTracked == Init /\ [][NextTracked]_vars

(* clearChar called with every cell row and every cell column below the *)
(* display width, after init() and after setPixel calls. A store outside *)
(* the array is undefined behaviour: the call returns with memory that   *)
(* is not _buffer overwritten, or the program does not go on.            *)
FirstPixels == last.op \in {"init", "setPixel"} /\ DoSetPixel

ClearCharAny ==
    /\ CanCall
    /\ last.op \in {"init", "setPixel"}
    /\ \E X \in Pages : \E Y \in 0 .. (OLED_WIDTH - 1) :
          LET r == clearChar(Machine, X, Y)
          IN  /\ _address' = r.address
              /\ _buffer' = r.buffer
              /\ dev' = r.dev
              /\ bus' = r.bus
              /\ last' = Call("clearChar", <<X, Y>>)
              /\ pc' \in IF OutOfArray(X, Y) THEN {"ready", "undefined"} ELSE {"ready"}
    /\ calls' = calls + 1
    /\ prev' = [buffer |-> _buffer, dev |-> dev]
    /\ UNCHANGED <<signed, loop, tasks>>

NextCell ==
    \/ InitFirst
    \/ FirstPixels
    \/ ClearCharAny

SpecCell == Init /\ [][NextCell]_vars

(* Two callers in setPixel at the same time on the one object, without   *)
(* mutual exclusion: the statements of setPixel are the steps, the |= of *)
(* its first statement a load and a store.                               *)
PixelPairs == {<<9, 13, 8, 13>>, <<9, 13, 63, 127>>}

StartSetPixels ==
    /\ CanCall
    /\ last.op = "init"
    /\ \E a \in PixelPairs :
          /\ tasks' = [run |-> [t \in Tasks |->
                                  [pc |-> "load", row |-> a[2 * t - 1], col |-> a[2 * t],
                                   reg |-> 0]],
                       mixed |-> FALSE, first |-> 0]
          /\ last' = Call("setPixel, setPixel", a)
    /\ pc' = "setPixels"
    /\ calls' = calls + 1
    /\ prev' = [buffer |-> _buffer, dev |-> dev]
    /\ bus' = <<>>
    /\ UNCHANGED <<_address, _buffer, dev, signed, loop>>

(* The statement of setPixel after the one at position at *)
setPixelAfter(at) ==
    CASE at = "load" -> "store"
      [] at = "store" -> "page"
      [] at = "page" -> "low"
      [] at = "low" -> "high"
      [] at = "high" -> "data"
      [] at = "data" -> "done"

(* What the statement at position at of setPixel sends: nothing while it *)
(* updates _buffer, then the three cursor commands, then the data byte.  *)
setPixelSend(m, at, row, col, byte) ==
    CASE at = "page" -> write(m, PAGE_BASE + row \div 8, OLED_CMD_MODE)
      [] at = "low" -> write(m, OLED_LOWCOLUMN + LowNibble(col), OLED_CMD_MODE)
      [] at = "high" -> write(m, OLED_HIGHCOLUMN + HighNibble(col), OLED_CMD_MODE)
      [] at = "data" -> write(m, byte, OLED_DATA_MODE)
      [] OTHER -> m

(* Mutant: the bit is stored alone, the loaded byte is dropped *)
setPixelStore_MaskOnly(loaded, row) == PixelMask(row, TRUE)

(* The byte that the |= of setPixel stores, from the byte it loaded *)
setPixelStore(loaded, row) == BitOr(loaded, PixelMask(row, TRUE))

(* One statement of caller t. The data byte is the byte of _buffer as it *)
(* is now, or the byte this caller stored where the build kept it in a   *)
(* register.                                                             *)
SetPixelStep(t) ==
    /\ pc = "setPixels"
    /\ tasks.run[t].pc \notin {"idle", "done"}
    /\ LET me == tasks.run[t]
           other == tasks.run[3 - t]
           page == me.row \div 8
           next == setPixelAfter(me.pc)
       IN  /\ \E byte \in {_buffer[me.col][page], me.reg} :
                 LET sent == setPixelSend([Machine EXCEPT !.bus = bus], me.pc, me.row,
                                          me.col, byte)
                 IN  /\ dev' = sent.dev
                     /\ bus' = sent.bus
           /\ _buffer' = IF me.pc = "store"
                         THEN [_buffer EXCEPT ![me.col][page] = setPixelStore(me.reg, me.row)]
                         ELSE _buffer
           /\ tasks' = [tasks EXCEPT
                           !.run[t].pc = next,
                           !.run[t].reg = CASE me.pc = "load" -> _buffer[me.col][page]
                                            [] me.pc = "store" -> setPixelStore(me.reg, me.row)
                                            [] OTHER -> @,
                           !.mixed = @ \/ other.pc \notin {"load", "done"},
                           !.first = IF @ = 0 THEN t ELSE @]
           /\ pc' = IF next = "done" /\ other.pc = "done" THEN "ready" ELSE pc
    /\ UNCHANGED <<_address, signed, last, calls, loop, prev>>

NextTasks ==
    \/ InitFirst
    \/ StartSetPixels
    \/ \E t \in Tasks : SetPixelStep(t)

SpecTasks == Init /\ [][NextTasks]_vars


(* ------------------------------------------------------------------ *)
(* Properties                                                          *)
(* ------------------------------------------------------------------ *)
Returned == pc = "ready"
Cmd(b) == <<_address, OLED_CMD_MODE, b>>
Data(b) == <<_address, OLED_DATA_MODE, b>>
Position(page, col) == <<Cmd(176 + page), Cmd(col % 16), Cmd(16 + col \div 16)>>
MirrorOf(buffer, ram) == \A c \in Columns : \A p \in Pages : buffer[c][p] = ram[p][c]
Mirror == MirrorOf(_buffer, dev.ram)
RamSameExcept(cells) ==
    \A p \in Pages : \A c \in Columns :
        <<p, c>> \notin cells => dev.ram[p][c] = prev.dev.ram[p][c]
BufferSameExcept(cells) ==
    \A p \in Pages : \A c \in Columns :
        <<p, c>> \notin cells => _buffer[c][p] = prev.buffer[c][p]
Lit(b, k) == (b \div (2 ^ k)) % 2 = 1

(* C1 as stated: once init() has been called, whenever a primitive has     *)
(* returned, every shadow byte [col][page] equals device RAM at (page,col).*)
C1_MirrorAfterEveryPrimitive ==
    (Started /\ Returned /\
     last.op \in {"init", "setPixel", "clear", "clearChar", "clearCharRow", "drawStr",
                  "drawImage", "drawHLine", "drawVLine", "drawProgressBar",
                  "setInvertedDisplay", "powerOn", "powerOff"})
    => Mirror

(* C1 amended: init() and clear() make the shadow buffer equal device RAM, *)
(* and setPixel, clearChar, clearCharRow, setInvertedDisplay, powerOn and  *)
(* powerOff keep it equal if it was when they were called.                 *)
C1_MirrorKeptByTrackedPrimitives ==
    /\ (Returned /\ last.op \in {"init", "clear"}) => Mirror
    /\ (Returned /\ last.op \in {"setPixel", "clearChar", "clearCharRow",
                                 "setInvertedDisplay", "powerOn", "powerOff"}
        /\ MirrorOf(prev.buffer, prev.dev.ram)) => Mirror

C1_Witness ==
    /\ Returned /\ last.op = "clearChar"
    /\ MirrorOf(prev.buffer, prev.dev.ram) /\ prev.buffer[127][7] = 128
    /\ _buffer[127][7] = 128 /\ dev.ram[7][127] = 128

(* C2: after setPixel(row, col, true) the shadow byte [col][row/8] has bit *)
(* row%8 set and its other seven bits as before the call, and every other  *)
(* shadow byte is unchanged.                                               *)
C2_SetPixelReadModifyWrite ==
    (last.op = "setPixel" /\ last.args[3] = 1) =>
        LET row == last.args[1]
            col == last.args[2]
        IN  /\ Lit(_buffer[col][row \div 8], row % 8)
            /\ \A k \in 0 .. 7 :
                  k # row % 8 =>
                      (Lit(_buffer[col][row \div 8], k) <=> Lit(prev.buffer[col][row \div 8], k))
            /\ BufferSameExcept({<<row \div 8, col>>})

C2_Witness ==
    /\ last = Call("setPixel", <<8, 13, 1>>)
    /\ prev.buffer[13][1] = 2
    /\ _buffer[13][1] = 3

(* C3: setPixel sends exactly three command bytes that place the cursor at *)
(* page row/8, column col, then one data byte equal to the updated shadow  *)
(* byte; device RAM at (row/8, col) then equals shadow [col][row/8] and no *)
(* other device RAM byte has changed.                                      *)
C3_SetPixelTransactions ==
    last.op = "setPixel" =>
        LET row == last.args[1]
            col == last.args[2]
        IN  /\ bus = Position(row \div 8, col) \o <<Data(_buffer[col][row \div 8])>>
            /\ bus[2][3] + 16 * (bus[3][3] - 16) = col
            /\ dev.ram[row \div 8][col] = _buffer[col][row \div 8]
            /\ RamSameExcept({<<row \div 8, col>>})

C3_Witness ==
    /\ last = Call("setPixel", <<63, 127, 1>>)
    /\ Len(bus) = 4
    /\ dev.ram[7][127] = 128

AllData(seq, b) == \A k \in 1 .. Len(seq) : seq[k] = Data(b)
LastN(seq, n) == SubSeq(seq, Len(seq) - n + 1, Len(seq))

(* C5: after clear() every shadow byte and every device RAM byte is zero   *)
(* and the cursor is at page 0, column 0; the device was written page by   *)
(* page, each page one positioning followed by 128 zero data bytes.        *)
C5_ClearZeroesEverything ==
    last.op = "clear" =>
        /\ \A c \in Columns : \A p \in Pages : _buffer[c][p] = 0 /\ dev.ram[p][c] = 0
        /\ dev.page = 0 /\ dev.col = 0
        /\ Len(bus) = 8 * 131 + 6
        /\ \A j \in 0 .. 7 :
              /\ SubSeq(bus, 131 * j + 1, 131 * j + 3) = Position(j, 0)
              /\ AllData(SubSeq(bus, 131 * j + 4, 131 * j + 131), 0)
        /\ LastN(bus, 6) = Position(0, 0) \o Position(0, 0)

C5_Witness ==
    /\ last.op = "clear"
    /\ prev.buffer[127][7] = 128 /\ prev.dev.ram[7][127] = 128
    /\ _buffer[127][7] = 0 /\ dev.ram[7][127] = 0

(* C6: clearChar(r, c) zeroes the 8 shadow bytes [8c..8c+7][r] and the 8   *)
(* device RAM bytes at page r, columns 8c..8c+7, changes no other shadow   *)
(* or device byte, and leaves the cursor at (0,0).                         *)
C6_ClearCharFrame ==
    last.op = "clearChar" =>
        LET r == last.args[1]
            c == last.args[2]
            cell == {<<r, 8 * c + i>> : i \in 0 .. 7}
        IN  /\ \A i \in 0 .. 7 : _buffer[8 * c + i][r] = 0 /\ dev.ram[r][8 * c + i] = 0
            /\ BufferSameExcept(cell)
            /\ RamSameExcept(cell)
            /\ dev.page = 0 /\ dev.col = 0

C6_Witness ==
    /\ last = Call("clearChar", <<1, 1>>)
    /\ prev.buffer[13][1] = 2 /\ prev.dev.ram[1][13] = 2
    /\ _buffer[13][1] = 0 /\ dev.ram[1][13] = 0

(* C7: after init(), drawImage(data) leaves device RAM at page p, column c *)
(* equal to data[p*128 + c]; the 1024 bytes are streamed in order after a  *)
(* single positioning at (0,0).                                            *)
C7_DrawImageRaster ==
    last.op = "drawImage" =>
        LET n == last.args[1]
        IN  /\ \A p \in Pages : \A c \in Columns : dev.ram[p][c] = ImageByte(n, p * 128 + c)
            /\ Len(bus) = (8 * 131 + 6) + 3 + 1024
            /\ SubSeq(bus, Len(bus) - 1026, Len(bus) - 1024) = Position(0, 0)
            /\ \A k \in 0 .. 1023 : bus[Len(bus) - 1023 + k] = Data(ImageByte(n, k))

C7_Witness ==
    /\ last = Call("drawImage", <<1>>)
    /\ prev.dev.ram[1][13] # 0
    /\ dev.ram[0][0] = 5 /\ dev.ram[1][0] = 133 /\ dev.ram[7][127] = 254

(* C8: drawProgressBar(row, 0) followed by drawProgressBar(row, 100): the  *)
(* 100 body bytes of the first call are all the empty pattern 0x42 and the *)
(* 100 body bytes of the second call are all the filled pattern 0x7E.      *)
C8_BarEmptyThenFilled ==
    [][(/\ last.op = "drawProgressBar" /\ last.args[2] = 0
        /\ last'.op = "drawProgressBar" /\ last'.args = <<last.args[1], 100>>)
       => (AllData(LastN(bus, 100), 66) /\ AllData(LastN(bus', 100), 126))]_vars

(* C9: drawProgressBar(cellRow, percent) writes 0x7E at columns 12 and 113 *)
(* of page cellRow, then streams 100 body bytes to columns 13..112, byte i *)
(* being 0x7E if i <= percent and 0x42 otherwise; both markers are 0x7E on *)
(* the device on return.                                                   *)
C9_ProgressBarBody ==
    last.op = "drawProgressBar" =>
        LET X == last.args[1]
            percent == last.args[2]
            t == LastN(bus, 111)
            Body(i) == IF i <= percent THEN 126 ELSE 66
        IN  /\ Len(bus) = IF percent = 0 THEN 16 * 11 + 3 + 111 ELSE 111
            /\ SubSeq(t, 1, 4) = Position(X, 12) \o <<Data(126)>>
            /\ SubSeq(t, 5, 8) = Position(X, 113) \o <<Data(126)>>
            /\ SubSeq(t, 9, 11) = Position(X, 13)
            /\ \A i \in 0 .. 99 : t[12 + i] = Data(Body(i)) /\ dev.ram[X][13 + i] = Body(i)
            /\ dev.ram[X][12] = 126 /\ dev.ram[X][113] = 126
            /\ percent > 100 => \A i \in 0 .. 99 : dev.ram[X][13 + i] = 126
            /\ percent < 0 => \A i \in 0 .. 99 : dev.ram[X][13 + i] = 66

C9_Witness ==
    /\ last = Call("drawProgressBar", <<1, 50>>)
    /\ dev.ram[1][63] = 126 /\ dev.ram[1][64] = 66
    /\ dev.ram[1][12] = 126 /\ dev.ram[1][113] = 126

(* C10: drawHLine(row) positions the cursor at page row/8, column 0 and    *)
(* streams exactly 128 data bytes, each 1 << (row%8); afterwards every     *)
(* device RAM byte of page row/8 holds that value and no other page has    *)
(* changed.                                                                *)
C10_HLineOnePage ==
    last.op = "drawHLine" =>
        LET row == last.args[1]
            value == 2 ^ (row % 8)
        IN  /\ SubSeq(bus, 1, 3) = Position(row \div 8, 0)
            /\ Cardinality({k \in 1 .. Len(bus) : bus[k][2] = OLED_DATA_MODE}) = 128
            /\ AllData(SubSeq(bus, 4, 131), value)
            /\ \A c \in Columns : dev.ram[row \div 8][c] = value
            /\ RamSameExcept({<<row \div 8, c>> : c \in Columns})

(* C11: every primitive called with in-range arguments terminates after  *)
(* a finite number of bus transactions, its loop counters evaluated at   *)
(* their declared 8-bit width. A primitive that returns does so within   *)
(* its call; one that is still running has taken its counter through all *)
(* 2^8 values back to the value it started the lap with, so it repeats   *)
(* the lap for ever. The claim is that no such state is reached.         *)
C11_EveryPrimitiveReturns == Returned /\ loop = NoLoop

(* C12: drawStr(string, cellRow, cellColumn) sends one positioning (page *)
(* cellRow, column 8 * cellColumn) and then exactly 8 data bytes per     *)
(* character and nothing else; data byte 8k + j is entry j of the glyph  *)
(* of the k-th character taken as an unsigned code 0 .. 255, and the     *)
(* glyph of character k lands at columns 8 * (cellColumn + k) .. + 7 of  *)
(* page cellRow as long as that cell is in the row.                      *)
C12_DrawStrGlyphs ==
    last.op = "drawStr" =>
        LET string == Strings[last.args[1]]
            X == last.args[2]
            Y == last.args[3]
            n == Len(string)
        IN  /\ Len(bus) = 3 + 8 * n
            /\ SubSeq(bus, 1, 3) = Position(X, 8 * Y)
            /\ \A k \in 0 .. (n - 1), j \in 0 .. 7 :
                  /\ string[k + 1] \in 0 .. 255
                  /\ bus[3 + 8 * k + j + 1] = Data(defaultFont[string[k + 1]][j + 1])
                  /\ (Y + k <= 15) =>
                        dev.ram[X][8 * (Y + k) + j] = defaultFont[string[k + 1]][j + 1]

(* a two-character string with a code above 127, drawn where it fits, *)
(* over other content                                                 *)
C12_Witness ==
    /\ last = Call("drawStr", <<2, 1, 1>>)
    /\ Strings[2][1] >= 128
    /\ Len(bus) = 19
    /\ prev.dev.ram[1][13] # 0
    /\ dev.ram[1][11] = 31
    /\ dev.ram[1][19] = 22

(* C13: drawVLine(col) sends, for each page 0 .. 7 in this order, one   *)
(* positioning at (page, col) followed by one data byte 0xFF (and then  *)
(* the cursor reset to (0, 0)); on return device column col is 0xFF in  *)
(* all 8 pages and every other device byte is unchanged.                *)
C13_VLineEveryPage ==
    last.op = "drawVLine" =>
        LET col == last.args[1]
        IN  /\ Len(bus) = 8 * 4 + 3
            /\ \A k \in Pages :
                  /\ SubSeq(bus, 4 * k + 1, 4 * k + 3) = Position(k, col)
                  /\ bus[4 * k + 4] = Data(255)
            /\ LastN(bus, 3) = Position(0, 0)
            /\ \A k \in Pages : dev.ram[k][col] = 255
            /\ RamSameExcept({<<k, col>> : k \in Pages})

(* a vertical line drawn over a display that shows something else *)
C13_Witness ==
    /\ last = Call("drawVLine", <<13>>)
    /\ \E c \in Columns \ {13} : prev.dev.ram[1][c] # 0
    /\ prev.dev.ram[7][13] = 0
    /\ dev.ram[7][13] = 255

(* The machine as it was when the last primitive was called *)
PrevMachine ==
    [address |-> _address, buffer |-> prev.buffer, dev |-> prev.dev, bus |-> <<>>,
     signed |-> signed]

(* clearChar(X, c), clearChar(X, c + 1), ... clearChar(X, 15) in turn *)
RECURSIVE ClearCharEach(_, _, _)
ClearCharEach(m, X, c) ==
    IF c < OLED_WIDTH \div 8
    THEN LET cell == clearChar(m, X, c)
         IN  CASE Sent(cell) -> ClearCharEach(cell, X, c + 1)
    ELSE m

(* C14: clearCharRow(r) has the same effect on the shadow buffer and on  *)
(* the device as clearChar(r, c) called for every c in 0 .. 15: the 128  *)
(* shadow bytes [0 .. 127][r] and the 128 device bytes of page r are     *)
(* zero, every other page is unchanged in both, and the cursor is at     *)
(* (0, 0).                                                               *)
C14_ClearCharRowAsCells ==
    last.op = "clearCharRow" =>
        LET r == last.args[1]
            cells == ClearCharEach(PrevMachine, r, 0)
        IN  /\ _buffer = cells.buffer
            /\ dev = cells.dev
            /\ \A c \in Columns : _buffer[c][r] = 0 /\ dev.ram[r][c] = 0
            /\ BufferSameExcept({<<r, c>> : c \in Columns})
            /\ RamSameExcept({<<r, c>> : c \in Columns})
            /\ dev.page = 0 /\ dev.col = 0

(* a row cleared that had a pixel set in the shadow buffer and on the *)
(* device                                                            *)
C14_Witness ==
    /\ last = Call("clearCharRow", <<1>>)
    /\ prev.buffer[13][1] # 0
    /\ prev.dev.ram[1][13] # 0
    /\ _buffer[13][1] = 0
    /\ dev.ram[1][13] = 0

(* The transactions of init() before those of clear() and powerOn() *)
ClearLen == Len(clear([Machine EXCEPT !.bus = <<>>]).bus)
InitConfig == [k \in 1 .. (Len(bus) - ClearLen - 1) |-> bus[k]]

(* The opcodes of a sequence of command transactions: the byte after a *)
(* two-byte command is its value, not an opcode.                       *)
RECURSIVE OpcodesFrom(_, _)
OpcodesFrom(seq, k) ==
    IF k > Len(seq) THEN <<>>
    ELSE IF seq[k][3] \in TwoByteCommands
         THEN <<seq[k][3]>> \o OpcodesFrom(seq, k + 2)
         ELSE <<seq[k][3]>> \o OpcodesFrom(seq, k + 1)

(* clock divider, multiplexing ratio, charge pump, memory addressing   *)
(* mode, segment remap, scan direction, contrast, precharge timing,    *)
(* VCOM level, output enable, scroll disabled                          *)
DocumentedPowerUp ==
    << OLED_SETDISPLAYCLOCKDIV, OLED_SETMULTIPLEX, OLED_CHARGEPUMP, OLED_SETMEMORYMODE,
       OLED_SEGREMAP, OLED_COMSCANDEC, OLED_SETCONTRAST, OLED_SETPRECHARGE,
       OLED_SETVCOMDETECT, OLED_DISPLAYALLONRESUME, OLED_SCROLLOFF >>

(* The configuration is sent in command mode to 0x3C, then the display *)
(* is cleared, then it is powered on.                                  *)
InitConfigThenClearThenOn ==
    LET n == Len(InitConfig)
    IN  /\ \A k \in 1 .. Len(bus) : bus[k][1] = 60
        /\ \A k \in 1 .. n : bus[k][2] = 128
        /\ \A j \in 0 .. 7 :
              /\ SubSeq(bus, n + 131 * j + 1, n + 131 * j + 3) = Position(j, 0)
              /\ AllData(SubSeq(bus, n + 131 * j + 4, n + 131 * j + 131), 0)
        /\ SubSeq(bus, n + 8 * 131 + 1, n + 8 * 131 + 6) = Position(0, 0) \o Position(0, 0)
        /\ Len(bus) = n + 8 * 131 + 6 + 1
        /\ bus[Len(bus)] = Cmd(175)

(* C15 as stated: init() sends exactly the documented power-up sequence *)
(* (the eleven commands above) with no extra or missing commands, every *)
(* byte in command mode to 0x3C, and only then clears the display and   *)
(* powers it on.                                                        *)
C15_InitSendsDocumentedSequence ==
    last.op = "init" =>
        /\ OpcodesFrom(InitConfig, 1) = DocumentedPowerUp
        /\ InitConfigThenClearThenOn

(* C15: init() sends 27 command bytes to 0x3C: display off (0xAE) and   *)
(* normal display (0xA6), then clock divider 0xD5 0x80, multiplexing    *)
(* ratio 0xA8 0x3F, display offset 0xD3 0x00, start line 0x40, charge   *)
(* pump 0x8D 0x14, memory addressing mode 0x20 0x00, segment remap      *)
(* 0xA0, scan direction 0xC8, COM pins 0xDA 0x12, contrast 0x81 0xCF,   *)
(* precharge 0xD9 0xF1, VCOM level 0xDB 0x40, output enable 0xA4,       *)
(* segment remap 0xA0 and 0xA1, scroll disabled 0x2E; only then it      *)
(* clears the display and powers it on.                                 *)
C15_InitSequence ==
    last.op = "init" =>
        /\ [k \in 1 .. Len(InitConfig) |-> InitConfig[k][3]] =
              << 174, 166, 213, 128, 168, 63, 211, 0, 64, 141, 20, 32, 0, 160, 200,
                 218, 18, 129, 207, 217, 241, 219, 64, 164, 160, 161, 46 >>
        /\ InitConfigThenClearThenOn
        /\ dev.on
        /\ dev.mode = 0

(* the first init() after power-up, the device RAM holding garbage *)
C15_Witness ==
    /\ last.op = "init"
    /\ calls = 1
    /\ prev.dev.ram[0][0] = 165
    /\ ~prev.dev.on
    /\ Len(bus) = 1082
    /\ dev.ram[0][0] = 0

(* C16: init() called again, after any calls, ends in the state the     *)
(* first init() ended in: shadow buffer all zero, device RAM all zero,  *)
(* cursor at (0, 0), display not inverted, and the display powered on   *)
(* by the last command sent; init() called once more from there sends  *)
(* the same transactions and ends in the same state.                    *)
C16_InitAgainSameState ==
    last.op = "init" =>
        /\ _address = 60
        /\ _buffer = [c \in Columns |-> [p \in Pages |-> 0]]
        /\ dev = [ram |-> [p \in Pages |-> [c \in Columns |-> 0]],
                  page |-> 0, col |-> 0, mode |-> 0, pending |-> 0,
                  on |-> TRUE, inverted |-> FALSE, addr |-> 60]
        /\ bus[Len(bus)] = Cmd(175)
        /\ LET again == init(Machine)
           IN  again.buffer = _buffer /\ again.dev = dev /\ again.bus = bus

(* init() called again when a pixel is set in both memories and the *)
(* cursor is elsewhere                                              *)
C16_Witness ==
    /\ last.op = "init"
    /\ calls > 1
    /\ prev.buffer[13][1] # 0
    /\ prev.dev.ram[1][13] # 0
    /\ prev.dev.col # 0
    /\ prev.dev.on
    /\ dev.ram[1][13] = 0

(* C17: positioning the cursor is always exactly three command bytes,   *)
(* in this order: 0xB0 + page, 0x00 + (column & 0x0F) and               *)
(* 0x10 + ((column >> 4) & 0x0F); for page 0 .. 7 and column 0 .. 127   *)
(* the device cursor is then (page, column); setCharCursor(r, c) sends  *)
(* the three bytes of setCursor(r, 8 * c).                              *)
C17_CursorThreeCommands ==
    last.op \in {"setCursor", "setCharCursor"} =>
        LET page == last.args[1]
            column == IF last.op = "setCursor" THEN last.args[2] ELSE 8 * last.args[2]
        IN  /\ bus = << Cmd(176 + page), Cmd(0 + (column % 16)),
                        Cmd(16 + ((column \div 16) % 16)) >>
            /\ dev.page = page
            /\ dev.col = column
            /\ dev.ram = prev.dev.ram
            /\ last.op = "setCharCursor" =>
                  bus = setCursor(PrevMachine, page, 8 * last.args[2]).bus

(* the cursor moved from (3, 40) to the last column of the last page *)
C17_Witness ==
    /\ last = Call("setCharCursor", <<7, 15>>)
    /\ prev.dev.page = 3 /\ prev.dev.col = 40
    /\ dev.page = 7 /\ dev.col = 120
    /\ bus = <<Cmd(183), Cmd(8), Cmd(23)>>

C19_ShadowUntouched ==
    last.op \in {"drawStr", "drawHLine", "drawVLine", "setInvertedDisplay",
                 "powerOn", "powerOff", "setAddress"} =>
        _buffer = prev.buffer

(* a string drawn over a pixel that the shadow buffer holds: the device *)
(* byte changes, the shadow byte does not                               *)
C19_Witness ==
    /\ last = Call("drawStr", <<2, 1, 1>>)
    /\ prev.buffer[13][1] = 2
    /\ prev.dev.ram[1][13] = 2
    /\ dev.ram[1][13] = 0
    /\ _buffer[13][1] = 2

(* C20: drawProgressBar(cellRow, percent) clears the whole character    *)
(* row (the 128 shadow bytes and the 128 device bytes of page cellRow)  *)
(* before drawing if and only if percent is 0; for any other percent it *)
(* leaves the shadow buffer unchanged and changes device RAM only at    *)
(* columns 12 .. 113 of page cellRow.                                   *)
C20_ProgressBarFrame ==
    last.op = "drawProgressBar" =>
        LET X == last.args[1]
            percent == last.args[2]
            row == {<<X, c>> : c \in Columns}
            bar == {<<X, c>> : c \in 12 .. 113}
        IN  IF percent = 0
            THEN LET cleared == clearCharRow(PrevMachine, X)
                 IN  /\ SubSeq(bus, 1, Len(cleared.bus)) = cleared.bus
                     /\ Len(bus) = Len(cleared.bus) + 111
                     /\ \A c \in Columns : _buffer[c][X] = 0
                     /\ \A c \in Columns \ (12 .. 113) : dev.ram[X][c] = 0
                     /\ BufferSameExcept(row)
                     /\ RamSameExcept(row)
            ELSE /\ Len(bus) = 111
                 /\ _buffer = prev.buffer
                 /\ RamSameExcept(bar)

(* a bar of 50 percent drawn over a row that has a pixel set in the     *)
(* shadow buffer: the shadow byte stays, the device byte is overwritten *)
C20_Witness ==
    /\ last = Call("drawProgressBar", <<1, 50>>)
    /\ prev.buffer[13][1] = 2
    /\ prev.dev.ram[1][13] = 2
    /\ _buffer[13][1] = 2
    /\ dev.ram[1][13] = 126
    /\ Len(bus) = 111

(* The two setPixel calls of the callers, one after the other, caller t *)
(* first, from the state they were started in                           *)
SerialSetPixels(t) ==
    LET a == tasks.run[t]
        b == tasks.run[3 - t]
    IN  setPixel(setPixel(PrevMachine, a.row, a.col, TRUE), b.row, b.col, TRUE)

BothReturned == last.op = "setPixel, setPixel" /\ pc = "ready"

(* C21: two callers whose setPixel calls interleave, without mutual     *)
(* exclusion, can leave device RAM and the shadow buffer in a state     *)
(* that neither serial order of the two calls gives (C21_Witness is     *)
(* such a state). The calls give the result of their serial order, on   *)
(* the bus too, whenever they do not interleave, and the device is      *)
(* never left as a serial order leaves it with a shadow buffer that     *)
(* lost a pixel.                                                        *)
C21_SerialUnlessInterleaved ==
    BothReturned =>
        /\ ~tasks.mixed =>
              LET serial == SerialSetPixels(tasks.first)
              IN  /\ _buffer = serial.buffer
                  /\ dev = serial.dev
                  /\ bus = serial.bus
        /\ (\A t \in Tasks : _buffer # SerialSetPixels(t).buffer) =>
              \A t \in Tasks : dev.ram # SerialSetPixels(t).dev.ram

(* both callers have returned; the shadow buffer and device RAM are    *)
(* those of neither serial order                                       *)
C21_Witness ==
    /\ BothReturned
    /\ tasks.mixed
    /\ \A t \in Tasks :
          /\ _buffer # SerialSetPixels(t).buffer
          /\ dev.ram # SerialSetPixels(t).dev.ram

(* Three transactions that position the cursor: page, low column nibble, *)
(* high column nibble, all in command mode                               *)
IsPositioning(a, b, c) ==
    /\ a[2] = 128 /\ a[3] \in 176 .. 183
    /\ b[2] = 128 /\ b[3] \in 0 .. 15
    /\ c[2] = 128 /\ c[3] \in 16 .. 23

(* C22: in every primitive that writes pixel data, no data byte is sent  *)
(* before this invocation has sent a complete three-command cursor       *)
(* positioning: every data byte of the call follows another data byte or *)
(* the third command of a positioning, so that none lands where an       *)
(* earlier primitive left the cursor.                                    *)
C22_DataAfterPositioning ==
    last.op \in {"setPixel", "clear", "clearChar", "clearCharRow", "drawStr", "drawImage",
                 "drawHLine", "drawVLine", "drawProgressBar"} =>
        \A k \in 1 .. Len(bus) :
            bus[k][2] = 64 =>
                /\ k > 3
                /\ \/ bus[k - 1][2] = 64
                   \/ IsPositioning(bus[k - 3], bus[k - 2], bus[k - 1])

(* a string drawn after the cursor was left at (3, 40): its first data *)
(* byte is the fourth transaction of the call and lands in its cell    *)
C22_Witness ==
    /\ last = Call("drawStr", <<2, 1, 1>>)
    /\ prev.dev.page = 3 /\ prev.dev.col = 40
    /\ IsPositioning(bus[1], bus[2], bus[3])
    /\ bus[4][2] = 64
    /\ dev.ram[1][11] = 31
    /\ dev.ram[3][43] = 0

(* C23: getAddress() returns the argument of the most recent setAddress  *)
(* (of the constructor when there was none, 0x3C by default); every bus  *)
(* transaction after setAddress(a), up to the next setAddress, is        *)
(* addressed to a; setAddress itself sends nothing. Stated step by step: *)
(* the address in effect starts as the constructor's argument, becomes a *)
(* in setAddress(a) and is changed by no other call; getAddress returns  *)
(* it; and the transactions of each call carry it.                       *)
C23_AddressInEffect ==
    /\ last.op = "construct" /\ getAddress(Machine) = last.args[1] /\ last.args[1] = 60
    /\ [][/\ last'.op = "setAddress" =>
                /\ _address' = last'.args[1]
                /\ bus' = <<>>
                /\ dev' = dev
          /\ last'.op # "setAddress" => _address' = _address
          /\ (last'.op = "getAddress" /\ calls' # calls) =>
                /\ last'.args[1] = _address
                /\ bus' = <<>>
          /\ \A k \in 1 .. Len(bus') : bus'[k][1] = _address']_vars

(* the display initialised after setAddress(0x3D): all 1082 transactions *)
(* are addressed to 0x3D, and the device wired at 0x3C receives none     *)
C23_Witness ==
    /\ last.op = "init"
    /\ _address = 61
    /\ Len(bus) = 1082
    /\ \A k \in 1 .. Len(bus) : bus[k][1] = 61
    /\ dev = prev.dev

(* Pixel (row, col) is set in the shadow buffer b *)
PixelSet(b, row, col) == Lit(b[col][row \div 8], row % 8)

ClearCharInsideArray(X, Y) ==
    /\ \A s \in clearCharBufferStores(X, Y) : s[1] \in Columns /\ s[2] \in Pages
    /\ Returned
    /\ \A c \in Columns : \A p \in Pages :
          _buffer[c][p] = IF <<c, p>> \in clearCharBufferStores(X, Y) THEN 0
                          ELSE prev.buffer[c][p]
    /\ LET positioned == setCharCursor(PrevMachine, X, Y).dev
       IN  positioned.page = X /\ positioned.col = 8 * Y
    /\ \A i \in 0 .. 7 : dev.ram[X][8 * Y + i] = 0

(* C25 as stated: with cellRow in [0, height/8) and cellColumn in        *)
(* [0, width), every shadow element clearChar writes,                    *)
(* [cellColumn * 8 + i][cellRow], is inside the 128 x 8 array, and the   *)
(* cursor column, cellColumn * 8, is the column of the cell.             *)
C25_ClearCharWithinWidth ==
    (last.op = "clearChar" /\ last.args[1] \in 0 .. (OLED_HEIGHT \div 8 - 1)
                           /\ last.args[2] \in 0 .. (OLED_WIDTH - 1)) =>
        ClearCharInsideArray(last.args[1], last.args[2])

(* C25: with cellRow in [0, height/8) and cellColumn in [0, width/8),    *)
(* every shadow element clearChar writes is inside the 128 x 8 array and *)
(* the cursor column, cellColumn * 8, is the column of the cell; with    *)
(* cellColumn from width/8 up, all 8 stores are outside the array.       *)
C25_ClearCharWithinCells ==
    last.op = "clearChar" =>
        IF last.args[2] \in 0 .. (OLED_WIDTH \div 8 - 1)
        THEN ClearCharInsideArray(last.args[1], last.args[2])
        ELSE /\ \A s \in clearCharBufferStores(last.args[1], last.args[2]) :
                    s[1] \notin Columns
             /\ _buffer = prev.buffer

(* the last cell of the last row cleared, with a pixel set in it *)
C25_Witness ==
    /\ last = Call("clearChar", <<7, 15>>)
    /\ Returned
    /\ prev.buffer[127][7] = 128 /\ prev.dev.ram[7][127] = 128
    /\ _buffer[127][7] = 0 /\ dev.ram[7][127] = 0
    /\ ~OutOfArray(7, 15)

====
